---- MODULE Spec2Model ----
(***************************************************************************)
(* Dependency discovery (crates/mako/src/analyze_deps.rs) and the shared   *)
(* worker pool (crates/mako/src/thread_pool.rs) of mako.                   *)
(*                                                                         *)
(* Spec      one call of analyze_deps on one syntax tree, one visitor      *)
(*           callback per step.                                            *)
(* SpecPool  caller threads using spawn / scope on the process-wide pool,  *)
(*           pool workers running module analyses and scoped sub-tasks.    *)
(***************************************************************************)
EXTENDS Integers, Sequences, FiniteSets, TLC

VARIABLES
    ast,          \* Spec: the ModuleAst handed to analyze_deps
    pc,           \* Spec: "start" | "visiting" | "done" | "panicked"
    stack,        \* Spec: nodes still to be visited, next one first
    visitor,      \* Spec: the DepCollectVisitor of the running analysis
    result,       \* Spec: the Vec<Dependency> returned by analyze_deps
    once,         \* SpecPool: state of the OnceLock behind THREAD_POOL
    THREAD_POOL,  \* SpecPool: 0 while unset, else the id of the stored pool
    built,        \* SpecPool: number of pools build_rayon_thread_pool returned
    failed,       \* SpecPool: number of builds that panicked
    proc,         \* SpecPool: "running" | "aborted" | "exited"
    scopeCalls,        \* SpecPool: number of scope calls made so far
    callers,      \* SpecPool: per caller thread, its position and pool reference
    scopes,       \* SpecPool: per caller thread, the scope it is blocked in
    tasks,        \* SpecPool: per spawned analysis, module, status, stack, result
    visitors      \* SpecPool: the DepCollectVisitor values of the analyses

vars == <<ast, pc, stack, visitor, result, once, THREAD_POOL, built, failed,
          proc, scopeCalls, callers, scopes, tasks, visitors>>

analysisVars == <<ast, pc, stack, visitor, result>>
poolVars == <<once, THREAD_POOL, built, failed, proc, scopeCalls, callers, scopes, tasks,
              visitors>>

(***************************************************************************)
(* Bounds                                                                  *)
(***************************************************************************)
MaxItems == 2      \* module items / stylesheet rules per tree
MaxDepth == 2      \* nesting depth of call expressions
MaxTasks == 2      \* analyses the driving loop spawns
MaxCallers == 2    \* threads calling spawn / scope (thread 1 is main)
MaxThreads == 2    \* workers of the pool
MaxSub == 1        \* sub-tasks one scope operation spawns
MaxScopes == 1     \* scope calls of one run
MaxFail == 1       \* pool builds that fail

Sources == {"a", "b"}

(***************************************************************************)
(* Syntax trees.  Every node is [kind, tag, src, kids].                    *)
(***************************************************************************)
Node(kind, tag, src, kids) == [kind |-> kind, tag |-> tag, src |-> src, kids |-> kids]

\* swc_ecma_ast
Str(s) == Node("Str", "", s, <<>>)
Ident(s) == Node("Ident", "", s, <<>>)
ImportKw == Node("Import", "callee", "", <<>>)
Member(obj, prop) == Node("Member", "", prop, <<obj>>)
Call(callee, args) == Node("Call", "", "", <<callee>> \o args)
ExprStmt(e) == Node("ExprStmt", "", "", <<e>>)
ImportDecl(s, type_only) ==
    Node("ImportDecl", IF type_only THEN "type_only" ELSE "value", s, <<Str(s)>>)
ExportNamedFrom(s) == Node("ExportNamed", "src", s, <<Str(s)>>)
ExportNamedLocal == Node("ExportNamed", "nosrc", "", <<Ident("x")>>)
ExportAll(s) == Node("ExportAll", "", s, <<Str(s)>>)
ExportFn(body) == Node("ExportDecl", "fn", "foo", body)
Script(items) == Node("Script", "", "", items)

\* swc_css_ast
Url(tag, s) == Node("Url", tag, s, <<>>)
ImportHrefUrl(u) == Node("ImportHref", "Url", "", <<u>>)
ImportHrefStr(s) == Node("ImportHref", "Str", s, <<>>)
ImportRule(href) == Node("ImportRule", "", "", <<href>>)
CssIdent(s) == Node("CssIdent", "", s, <<>>)
Declaration(prop, values) == Node("Declaration", "", prop, values)
Css(rules) == Node("Css", "", "", rules)

\* any other ModuleAst variant
Other == Node("None", "", "", <<>>)

ModuleDeclKinds == {"ImportDecl", "ExportNamed", "ExportAll", "ExportDecl"}

SeqsUpTo(S, n) == UNION {[1..k -> S] : k \in 0..n}

Leaves == {Str(s) : s \in Sources} \cup {Ident("x")}

\* calls whose arguments are leaves
Calls1 ==
    {Call(Ident("require"), <<e>>) : e \in Leaves}
    \cup {Call(ImportKw, <<Str("a")>>),
          Call(ImportKw, <<Ident("x")>>),
          Call(Ident("foo"), <<Str("a")>>),
          Call(Member(Ident("module"), "require"), <<Str("a")>>),
          Call(Ident("require"), <<>>),
          Call(Ident("require"), <<Ident("x"), Str("b")>>)}

\* a call as an argument or as the callee of another call
Wrap(e) ==
    {Call(Ident("foo"), <<e>>),
     Call(Ident("require"), <<e>>),
     Call(Ident("require"), <<Str("b"), e>>),
     Call(e, <<Str("b")>>)}

\* a matching call below d - 1 calls that do not match
RECURSIVE Deep(_)
Deep(d) ==
    IF d <= 1 THEN {Call(Ident("require"), <<Str("a")>>), Call(ImportKw, <<Str("a")>>)}
    ELSE {Call(Ident("foo"), <<e>>) : e \in Deep(d - 1)}

CallsAt(d) == UNION {Wrap(e) : e \in Deep(d - 1)}

Nested == UNION {CallsAt(d) : d \in 2..MaxDepth}

Exprs == Calls1 \cup Nested

ModuleDecls ==
    {ImportDecl(s, t) : s \in Sources, t \in BOOLEAN}
    \cup {ExportNamedFrom("a"), ExportNamedLocal, ExportAll("a"), ExportAll("b")}

ModuleItems ==
    ModuleDecls
    \cup {ExprStmt(e) : e \in Calls1}
    \cup {ExportFn(<<ExprStmt(e)>>) : e \in Deep(1) \cup Nested}
    \cup {ExportFn(<<ExprStmt(Call(Ident("require"), <<Str("a")>>)),
                     ExprStmt(Call(ImportKw, <<Str("c")>>))>>)}

Urls == {Url("Str", "a"), Url("Raw", "a"), Url("Raw", "b"), Url("None", "")}

Rules ==
    {ImportRule(ImportHrefUrl(u)) : u \in Urls}
    \cup {ImportRule(ImportHrefStr(s)) : s \in Sources}
    \cup {Declaration("background", <<u>>) : u \in Urls}
    \cup {Declaration("src", <<CssIdent("x"), Url("Raw", "b")>>)}

Scripts == {Script(items) : items \in SeqsUpTo(ModuleItems, MaxItems)}
Stylesheets == {Css(rules) : rules \in SeqsUpTo(Rules, MaxItems)}
Asts == Scripts \cup Stylesheets \cup {Other}

(***************************************************************************)
(* DepCollectVisitor                                                       *)
(***************************************************************************)
Dependency(source, order, resolve_type) ==
    [source |-> source, order |-> order, resolve_type |-> resolve_type]

Contains(seq, x) == \E i \in 1..Len(seq) : seq[i] = x

new == [dependencies |-> <<>>, dep_strs |-> <<>>, order |-> 1]

\* bind_dependency without the order increment
bind_dependency_same_order(v, source, resolve_type) ==
    IF ~Contains(v.dep_strs, source)
    THEN [dependencies |-> Append(v.dependencies,
                                  Dependency(source, v.order, resolve_type)),
          dep_strs |-> Append(v.dep_strs, source),
          order |-> v.order]
    ELSE v

\* bind_dependency without the dep_strs test
bind_dependency_no_dedup(v, source, resolve_type) ==
    [dependencies |-> Append(v.dependencies,
                             Dependency(source, v.order, resolve_type)),
     dep_strs |-> Append(v.dep_strs, source),
     order |-> v.order + 1]

\* bind_dependency that consumes an order number on every call
bind_dependency_order_always(v, source, resolve_type) ==
    IF ~Contains(v.dep_strs, source)
    THEN [dependencies |-> Append(v.dependencies,
                                  Dependency(source, v.order, resolve_type)),
          dep_strs |-> Append(v.dep_strs, source),
          order |-> v.order + 1]
    ELSE [v EXCEPT !.order = v.order + 1]

\* bind_dependency that does not remember the source it recorded
bind_dependency_forget_source(v, source, resolve_type) ==
    IF ~Contains(v.dep_strs, source)
    THEN [dependencies |-> Append(v.dependencies,
                                  Dependency(source, v.order, resolve_type)),
          dep_strs |-> v.dep_strs,
          order |-> v.order + 1]
    ELSE v

bind_dependency(v, source, resolve_type) ==
    IF ~Contains(v.dep_strs, source)
    THEN [dependencies |-> Append(v.dependencies,
                                  Dependency(source, v.order, resolve_type)),
          dep_strs |-> Append(v.dep_strs, source),
          order |-> v.order + 1]
    ELSE v

\* What one visitor callback leaves behind: the visitor, the children it
\* goes on to visit, and whether it panicked.
Outcome(v, next, fault) == [v |-> v, next |-> next, fault |-> fault]

is_dynamic_import(call_expr) ==
    call_expr.kids[1].kind = "Import"

\* is_commonjs_require that also takes a member named require
is_commonjs_require_by_name(call_expr) ==
    call_expr.kids[1].kind \in {"Ident", "Member"} /\ call_expr.kids[1].src = "require"

is_commonjs_require(call_expr) ==
    IF call_expr.kids[1].kind = "Ident"
    THEN call_expr.kids[1].src = "require"
    ELSE FALSE

\* Some(s) is <<s>>, None is <<>>
get_first_arg_str(call_expr) ==
    IF Len(call_expr.kids) >= 2 /\ call_expr.kids[2].kind = "Str"
    THEN <<call_expr.kids[2].src>>
    ELSE <<>>

\* visit_module_decl that tags export * like a named re-export
visit_module_decl_export_kind(v, n) ==
    CASE n.kind = "ImportDecl" ->
            IF n.tag = "type_only"
            THEN Outcome(v, <<>>, FALSE)
            ELSE Outcome(bind_dependency(v, n.src, "Import"), n.kids, FALSE)
      [] n.kind = "ExportNamed" ->
            IF n.tag = "src"
            THEN Outcome(bind_dependency(v, n.src, "ExportNamed"), n.kids, FALSE)
            ELSE Outcome(v, n.kids, FALSE)
      [] n.kind = "ExportAll" ->
            Outcome(bind_dependency(v, n.src, "ExportNamed"), n.kids, FALSE)
      [] OTHER -> Outcome(v, n.kids, FALSE)

\* visit_module_decl without the type_only test
visit_module_decl_type_only(v, n) ==
    CASE n.kind = "ImportDecl" ->
            Outcome(bind_dependency(v, n.src, "Import"), n.kids, FALSE)
      [] n.kind = "ExportNamed" ->
            IF n.tag = "src"
            THEN Outcome(bind_dependency(v, n.src, "ExportNamed"), n.kids, FALSE)
            ELSE Outcome(v, n.kids, FALSE)
      [] n.kind = "ExportAll" ->
            Outcome(bind_dependency(v, n.src, "ExportAll"), n.kids, FALSE)
      [] OTHER -> Outcome(v, n.kids, FALSE)

\* visit_module_decl without n.visit_children_with(self)
visit_module_decl_no_children(v, n) ==
    CASE n.kind = "ImportDecl" ->
            IF n.tag = "type_only"
            THEN Outcome(v, <<>>, FALSE)
            ELSE Outcome(bind_dependency(v, n.src, "Import"), <<>>, FALSE)
      [] n.kind = "ExportNamed" ->
            IF n.tag = "src"
            THEN Outcome(bind_dependency(v, n.src, "ExportNamed"), <<>>, FALSE)
            ELSE Outcome(v, <<>>, FALSE)
      [] n.kind = "ExportAll" ->
            Outcome(bind_dependency(v, n.src, "ExportAll"), <<>>, FALSE)
      [] OTHER -> Outcome(v, <<>>, FALSE)

visit_module_decl(v, n) ==
    CASE n.kind = "ImportDecl" ->
            IF n.tag = "type_only"
            THEN Outcome(v, <<>>, FALSE)
            ELSE Outcome(bind_dependency(v, n.src, "Import"), n.kids, FALSE)
      [] n.kind = "ExportNamed" ->
            IF n.tag = "src"
            THEN Outcome(bind_dependency(v, n.src, "ExportNamed"), n.kids, FALSE)
            ELSE Outcome(v, n.kids, FALSE)
      [] n.kind = "ExportAll" ->
            Outcome(bind_dependency(v, n.src, "ExportAll"), n.kids, FALSE)
      [] OTHER -> Outcome(v, n.kids, FALSE)

\* a callback that visits the children of every call, recorded or not
visit_call_expr_always_children(v, expr) ==
    IF is_commonjs_require(expr) /\ get_first_arg_str(expr) # <<>>
    THEN Outcome(bind_dependency(v, get_first_arg_str(expr)[1], "Require"),
                 expr.kids, FALSE)
    ELSE IF is_dynamic_import(expr) /\ get_first_arg_str(expr) # <<>>
         THEN Outcome(bind_dependency(v, get_first_arg_str(expr)[1], "DynamicImport"),
                      expr.kids, FALSE)
         ELSE Outcome(v, expr.kids, FALSE)

visit_call_expr(v, expr) ==
    IF is_commonjs_require(expr)
    THEN IF get_first_arg_str(expr) # <<>>
         THEN Outcome(bind_dependency(v, get_first_arg_str(expr)[1], "Require"),
                      <<>>, FALSE)
         ELSE Outcome(v, expr.kids, FALSE)
    ELSE IF is_dynamic_import(expr) /\ get_first_arg_str(expr) # <<>>
         THEN Outcome(bind_dependency(v, get_first_arg_str(expr)[1], "DynamicImport"),
                      <<>>, FALSE)
         ELSE Outcome(v, expr.kids, FALSE)

\* a value read only from a quoted url()
UrlValue_quoted_only(url) == IF url.tag = "Str" THEN <<url.src>> ELSE <<>>

\* url.value.as_ref().map(...): Some(text) is <<text>>, None is <<>>
UrlValue(url) == IF url.tag \in {"Str", "Raw"} THEN <<url.src>> ELSE <<>>

visit_import_href(v, n) ==
    IF n.tag = "Url"
    THEN IF UrlValue(n.kids[1]) # <<>>
         THEN Outcome(bind_dependency(v, UrlValue(n.kids[1])[1], "Css"), <<>>, FALSE)
         ELSE Outcome(v, <<>>, FALSE)
    ELSE Outcome(bind_dependency(v, n.src, "Css"), <<>>, FALSE)

visit_url(v, n) ==
    IF UrlValue(n) = <<>>
    THEN Outcome(v, <<>>, TRUE)
    ELSE Outcome(bind_dependency(v, UrlValue(n)[1], "Css"), <<>>, FALSE)

\* The callbacks DepCollectVisitor overrides; every other node is walked by
\* the generated default, which only visits the children.
ScriptHandled(n) == n.kind \in ModuleDeclKinds \cup {"Call"}
CssHandled(n) == n.kind \in {"ImportHref", "Url"}
Handled(n) == ScriptHandled(n) \/ CssHandled(n)

Visit(v, n) ==
    CASE n.kind \in ModuleDeclKinds -> visit_module_decl(v, n)
      [] n.kind = "Call" -> visit_call_expr(v, n)
      [] n.kind = "ImportHref" -> visit_import_href(v, n)
      [] n.kind = "Url" -> visit_url(v, n)
      [] OTHER -> Outcome(v, n.kids, FALSE)

\* visit_with as the code runs it: depth first, a node before its children,
\* children in source order; a panic unwinds out of the whole walk.
RECURSIVE visit_with(_, _)
RECURSIVE visit_children_with(_, _)
visit_with(o, n) ==
    IF o.fault THEN o
    ELSE LET r == Visit(o.v, n)
         IN  IF r.fault THEN r ELSE visit_children_with(Outcome(r.v, <<>>, FALSE), r.next)

visit_children_with(o, kids) ==
    IF o.fault \/ kids = <<>> THEN o
    ELSE visit_children_with(visit_with(o, Head(kids)), Tail(kids))

analyze_deps_js(tree) == visit_with(Outcome(new, <<>>, FALSE), tree)
analyze_deps_css(tree) == visit_with(Outcome(new, <<>>, FALSE), tree)

\* [fault, deps]: the returned Vec<Dependency>, or a panic
analyze_deps(tree) ==
    CASE tree.kind = "Script" ->
            [fault |-> analyze_deps_js(tree).fault,
             deps |-> analyze_deps_js(tree).v.dependencies]
      [] tree.kind = "Css" ->
            [fault |-> analyze_deps_css(tree).fault,
             deps |-> analyze_deps_css(tree).v.dependencies]
      [] OTHER -> [fault |-> FALSE, deps |-> <<>>]

\* The walk as a work list: the nodes the default visitor passes through are
\* replaced by their children until an overridden callback is next.
RECURSIVE Descend(_)
Descend(st) ==
    IF st = <<>> \/ Handled(Head(st)) THEN st
    ELSE Descend(Head(st).kids \o Tail(st))

(***************************************************************************)
(* Spec: one analysis                                                      *)
(***************************************************************************)
NoVisitor == [dependencies |-> <<>>, dep_strs |-> <<>>, order |-> 0]

PoolIdle ==
    /\ once = "incomplete"
    /\ THREAD_POOL = 0
    /\ built = 0
    /\ failed = 0
    /\ proc = "running"
    /\ scopeCalls = 0
    /\ callers = <<>>
    /\ scopes = <<>>
    /\ tasks = <<>>
    /\ visitors = <<>>

Init ==
    /\ ast \in Asts
    /\ pc = "start"
    /\ stack = <<>>
    /\ visitor = NoVisitor
    /\ result = <<>>
    /\ PoolIdle

\* analyze_deps: dispatch on the variant; a script or a stylesheet gets a
\* fresh DepCollectVisitor and is walked, anything else returns vec![].
AnalyzeScript ==
    /\ pc = "start"
    /\ ast.kind = "Script"
    /\ visitor' = new
    /\ stack' = Descend(<<ast>>)
    /\ pc' = "visiting"
    /\ UNCHANGED <<ast, result>>
    /\ UNCHANGED poolVars

AnalyzeCss ==
    /\ pc = "start"
    /\ ast.kind = "Css"
    /\ visitor' = new
    /\ stack' = Descend(<<ast>>)
    /\ pc' = "visiting"
    /\ UNCHANGED <<ast, result>>
    /\ UNCHANGED poolVars

\* a dispatcher that treats an unsupported variant as a fault
AnalyzeOther_panics ==
    /\ pc = "start"
    /\ ast.kind \notin {"Script", "Css"}
    /\ pc' = "panicked"
    /\ UNCHANGED <<ast, stack, visitor, result>>
    /\ UNCHANGED poolVars

AnalyzeOther ==
    /\ pc = "start"
    /\ ast.kind \notin {"Script", "Css"}
    /\ result' = <<>>
    /\ pc' = "done"
    /\ UNCHANGED <<ast, stack, visitor>>
    /\ UNCHANGED poolVars

\* one overridden callback on the next node
Callback(kinds) ==
    /\ pc = "visiting"
    /\ stack # <<>>
    /\ Head(stack).kind \in kinds
    /\ LET o == Visit(visitor, Head(stack))
       IN  /\ visitor' = o.v
           /\ IF o.fault
              THEN /\ pc' = "panicked"
                   /\ stack' = <<>>
              ELSE /\ pc' = pc
                   /\ stack' = Descend(o.next \o Tail(stack))
    /\ UNCHANGED <<ast, result>>
    /\ UNCHANGED poolVars

VisitModuleDecl == Callback(ModuleDeclKinds)
VisitCallExpr == Callback({"Call"})
VisitImportHref == Callback({"ImportHref"})
VisitUrl == Callback({"Url"})

\* visitor.dependencies is returned
Finish ==
    /\ pc = "visiting"
    /\ stack = <<>>
    /\ result' = visitor.dependencies
    /\ pc' = "done"
    /\ UNCHANGED <<ast, stack, visitor>>
    /\ UNCHANGED poolVars

Next ==
    \/ AnalyzeScript
    \/ AnalyzeCss
    \/ AnalyzeOther
    \/ VisitModuleDecl
    \/ VisitCallExpr
    \/ VisitImportHref
    \/ VisitUrl
    \/ Finish

Spec == Init /\ [][Next]_vars

(***************************************************************************)
(* SpecPool: spawn / scope on the process-wide pool                        *)
(***************************************************************************)
Callers == 1..MaxCallers
Tasks == 1..MaxTasks
Main == 1

\* the modules the driving loop hands to spawned analyses: two scripts,
\* and a stylesheet whose url() has no value
ScriptA ==
    Script(<<ImportDecl("a", FALSE), ExprStmt(Call(Ident("require"), <<Str("b")>>))>>)
ScriptB ==
    Script(<<ExportAll("b"), ExprStmt(Call(ImportKw, <<Str("c")>>))>>)
ScriptC == Script(<<ImportDecl("c", FALSE)>>)
CssFault == Css(<<Declaration("background", <<Url("None", "")>>)>>)

\* a job holds its module by name
Tree(name) ==
    CASE name = "ScriptA" -> ScriptA
      [] name = "ScriptB" -> ScriptB
      [] name = "ScriptC" -> ScriptC
      [] name = "CssFault" -> CssFault
      [] OTHER -> Other

PoolModules(t) ==
    CASE t = 1 -> {"ScriptA"}
      [] t = 2 -> {"ScriptB", "CssFault"}
      [] OTHER -> {"ScriptC"}

NoCaller == [pc |-> "idle", op |-> "none", pool |-> 0]
NoScope == [state |-> "none", pool |-> 0, spawned |-> 0, queued |-> 0, running |-> 0]
NewTask(m) == [module |-> m, status |-> "new", pool |-> 0, stack |-> <<>>,
               result |-> <<>>]

InitPool ==
    /\ ast = Other
    /\ pc = "start"
    /\ stack = <<>>
    /\ visitor = NoVisitor
    /\ result = <<>>
    /\ once = "incomplete"
    /\ THREAD_POOL = 0
    /\ built = 0
    /\ failed = 0
    /\ proc = "running"
    /\ scopeCalls = 0
    /\ callers = [c \in Callers |-> NoCaller]
    /\ scopes = [c \in Callers |-> NoScope]
    /\ tasks \in {f \in [Tasks -> {NewTask(m) : m \in UNION {PoolModules(t) : t \in Tasks}}] :
                    \A t \in Tasks : f[t].module \in PoolModules(t)}
    /\ visitors = [t \in Tasks |-> NoVisitor]

\* one collector shared by all analyses
VisitorOf_shared(t) == 1

\* let mut visitor = DepCollectVisitor::new(): a local of the analysis
VisitorOf(t) == t

\* an initializer that also runs while another thread is running its own
OnceCanInit_racy(state) == state # "complete"

\* OnceLock: the initializer runs only when no value is stored and no other
\* thread is running its initializer
OnceCanInit(state) == state \in {"incomplete", "poisoned"}

\* THREAD_POOL.get_or_init(build_rayon_thread_pool), up to the point where
\* the caller holds the pool, builds it, or blocks on the builder
get_or_init(cs) ==
    IF once = "complete"
    THEN [cs EXCEPT !.pc = "got", !.pool = THREAD_POOL]
    ELSE IF OnceCanInit(once)
         THEN [cs EXCEPT !.pc = "building"]
         ELSE [cs EXCEPT !.pc = "waiting"]

OnceAfter(cs) == IF cs.pc = "building" THEN "running" ELSE once

\* workers that are running a job
Sum(f) == LET RECURSIVE S(_)
              S(D) == IF D = {} THEN 0
                      ELSE LET x == CHOOSE x \in D : TRUE IN f[x] + S(D \ {x})
          IN  S(DOMAIN f)
Busy ==
    Cardinality({t \in Tasks : tasks[t].status = "running"})
    + Sum([c \in Callers |-> scopes[c].running
                             + (IF scopes[c].state = "op" THEN 1 ELSE 0)])

\* the closure handed to spawn: the analysis of the next module of the
\* driving loop
NextTask ==
    CHOOSE t \in Tasks :
        /\ tasks[t].status = "new"
        /\ \A u \in Tasks : tasks[u].status = "new" => t <= u

\* ThreadPool::spawn: the job is queued on the pool
Queued(pool) ==
    [tasks EXCEPT ![NextTask].status = "queued", ![NextTask].pool = pool]

\* spawn(func): THREAD_POOL.get_or_init; when the pool is already stored the
\* job is queued at once and spawn returns
CallSpawn(c) ==
    /\ proc = "running"
    /\ callers[c].pc = "idle"
    /\ Cardinality({d \in Callers : callers[d].op = "spawn"})
          < Cardinality({t \in Tasks : tasks[t].status = "new"})
    /\ IF once = "complete"
       THEN /\ tasks' = Queued(THREAD_POOL)
            /\ UNCHANGED <<callers, once>>
       ELSE /\ LET cs == get_or_init([callers[c] EXCEPT !.op = "spawn"])
               IN  /\ callers' = [callers EXCEPT ![c] = cs]
                   /\ once' = OnceAfter(cs)
            /\ tasks' = tasks
    /\ UNCHANGED <<THREAD_POOL, built, failed, proc, scopeCalls, scopes, visitors>>
    /\ UNCHANGED analysisVars

\* scope(op): the caller reaches THREAD_POOL.get_or_init
CallScope(c) ==
    /\ proc = "running"
    /\ callers[c].pc = "idle"
    /\ scopeCalls < MaxScopes
    /\ scopeCalls' = scopeCalls + 1
    /\ LET cs == get_or_init([callers[c] EXCEPT !.op = "scope"])
       IN  /\ callers' = [callers EXCEPT ![c] = cs]
           /\ once' = OnceAfter(cs)
    /\ UNCHANGED <<THREAD_POOL, built, failed, proc, scopes, tasks, visitors>>
    /\ UNCHANGED analysisVars

\* a caller blocked on another thread's initializer is woken and looks again
Wake(c) ==
    /\ proc = "running"
    /\ callers[c].pc = "waiting"
    /\ once # "running"
    /\ LET cs == get_or_init(callers[c])
       IN  /\ callers' = [callers EXCEPT ![c] = cs]
           /\ once' = OnceAfter(cs)
    /\ UNCHANGED <<THREAD_POOL, built, failed, proc, scopeCalls, scopes, tasks, visitors>>
    /\ UNCHANGED analysisVars

\* build_rayon_thread_pool returns a pool; the OnceLock stores it
BuildOk(c) ==
    /\ proc = "running"
    /\ callers[c].pc = "building"
    /\ built' = built + 1
    /\ THREAD_POOL' = built + 1
    /\ once' = "complete"
    /\ callers' = [callers EXCEPT ![c].pc = "got", ![c].pool = built + 1]
    /\ UNCHANGED <<failed, proc, scopeCalls, scopes, tasks, visitors>>
    /\ UNCHANGED analysisVars

\* build() fails and expect() panics in the calling thread: nothing is
\* stored, the closure handed to spawn is dropped; a panic of the main
\* thread ends the process
BuildFail(c) ==
    /\ proc = "running"
    /\ callers[c].pc = "building"
    /\ failed < MaxFail
    /\ failed' = failed + 1
    /\ once' = "poisoned"
    /\ callers' = [callers EXCEPT ![c].pc = "panicked", ![c].op = "none"]
    /\ proc' = IF c = Main THEN "exited" ELSE proc
    /\ UNCHANGED <<THREAD_POOL, built, scopeCalls, scopes, tasks, visitors>>
    /\ UNCHANGED analysisVars

\* a caller that built the pool or waited for it queues its job; spawn
\* returns
Spawn(c) ==
    /\ proc = "running"
    /\ callers[c].pc = "got"
    /\ callers[c].op = "spawn"
    /\ tasks' = Queued(callers[c].pool)
    /\ callers' = [callers EXCEPT ![c].pc = "idle", ![c].op = "none"]
    /\ UNCHANGED <<once, THREAD_POOL, built, failed, proc, scopeCalls, scopes, visitors>>
    /\ UNCHANGED analysisVars

\* ThreadPool::scope: op is handed to the pool, the caller blocks, and a
\* worker starts running op
ScopeBegin(c) ==
    /\ proc = "running"
    /\ callers[c].pc = "got"
    /\ callers[c].op = "scope"
    /\ Busy < MaxThreads
    /\ scopes' = [scopes EXCEPT ![c] = [NoScope EXCEPT !.state = "op",
                                                       !.pool = callers[c].pool]]
    /\ callers' = [callers EXCEPT ![c].pc = "in_scope"]
    /\ UNCHANGED <<once, THREAD_POOL, built, failed, proc, scopeCalls, tasks, visitors>>
    /\ UNCHANGED analysisVars

\* op scopeCalls s.spawn(..)
ScopeSpawn(c) ==
    /\ proc = "running"
    /\ scopes[c].state = "op"
    /\ scopes[c].spawned < MaxSub
    /\ scopes' = [scopes EXCEPT ![c].spawned = @ + 1, ![c].queued = @ + 1]
    /\ UNCHANGED <<once, THREAD_POOL, built, failed, proc, scopeCalls, callers, tasks, visitors>>
    /\ UNCHANGED analysisVars

\* op returns; its worker goes on to run queued jobs while the scope joins
ScopeOpReturn(c) ==
    /\ proc = "running"
    /\ scopes[c].state = "op"
    /\ scopes' = [scopes EXCEPT ![c].state = "joining"]
    /\ UNCHANGED <<once, THREAD_POOL, built, failed, proc, scopeCalls, callers, tasks, visitors>>
    /\ UNCHANGED analysisVars

\* a worker takes a sub-task of the scope; sub-tasks run to completion
SubStart(c) ==
    /\ proc = "running"
    /\ scopes[c].queued > 0
    /\ Busy < MaxThreads
    /\ scopes' = [scopes EXCEPT ![c].queued = @ - 1, ![c].running = @ + 1]
    /\ UNCHANGED <<once, THREAD_POOL, built, failed, proc, scopeCalls, callers, tasks, visitors>>
    /\ UNCHANGED analysisVars

SubFinish(c) ==
    /\ proc = "running"
    /\ scopes[c].running > 0
    /\ scopes' = [scopes EXCEPT ![c].running = @ - 1]
    /\ UNCHANGED <<once, THREAD_POOL, built, failed, proc, scopeCalls, callers, tasks, visitors>>
    /\ UNCHANGED analysisVars

\* a scope that is over as soon as op has returned
ScopeCanReturn_no_join(sc) == sc.state = "joining"

\* the scope is over once op has returned and no sub-task is left
ScopeCanReturn(sc) == sc.state = "joining" /\ sc.queued = 0 /\ sc.running = 0

\* scope returns to its caller
ScopeReturn(c) ==
    /\ proc = "running"
    /\ callers[c].pc = "in_scope"
    /\ ScopeCanReturn(scopes[c])
    /\ scopes' = [scopes EXCEPT ![c].state = "none", ![c].pool = 0, ![c].spawned = 0]
    /\ callers' = [callers EXCEPT ![c].pc = "idle", ![c].op = "none"]
    /\ UNCHANGED <<once, THREAD_POOL, built, failed, proc, scopeCalls, tasks, visitors>>
    /\ UNCHANGED analysisVars

\* a worker takes a spawned analysis: analyze_deps dispatches on the variant
\* and a script or stylesheet gets its own fresh DepCollectVisitor
TaskStart(t) ==
    /\ proc = "running"
    /\ tasks[t].status = "queued"
    /\ Busy < MaxThreads
    /\ IF Tree(tasks[t].module).kind \in {"Script", "Css"}
       THEN /\ visitors' = [visitors EXCEPT ![VisitorOf(t)] = new]
            /\ tasks' = [tasks EXCEPT ![t].status = "running",
                                      ![t].stack = Descend(<<Tree(tasks[t].module)>>)]
       ELSE /\ visitors' = visitors
            /\ tasks' = [tasks EXCEPT ![t].status = "running"]
    /\ UNCHANGED <<once, THREAD_POOL, built, failed, proc, scopeCalls, callers, scopes>>
    /\ UNCHANGED analysisVars

\* one visitor callback of a running analysis.  The unwrap() of visit_url
\* panics inside a job spawned on a pool built without a panic handler:
\* the process is aborted.
TaskStep(t) ==
    /\ proc = "running"
    /\ tasks[t].status = "running"
    /\ tasks[t].stack # <<>>
    /\ LET o == Visit(visitors[VisitorOf(t)], Head(tasks[t].stack))
       IN  IF o.fault
           THEN /\ tasks' = [tasks EXCEPT ![t].status = "panicked", ![t].stack = <<>>]
                /\ proc' = "aborted"
                /\ visitors' = visitors
           ELSE /\ tasks' = [tasks EXCEPT
                               ![t].stack = Descend(o.next \o Tail(tasks[t].stack))]
                /\ visitors' = [visitors EXCEPT ![VisitorOf(t)] = o.v]
                /\ proc' = proc
    /\ UNCHANGED <<once, THREAD_POOL, built, failed, scopeCalls, callers, scopes>>
    /\ UNCHANGED analysisVars

\* the analysis returns its list (vec![] for an unsupported variant)
TaskFinish(t) ==
    /\ proc = "running"
    /\ tasks[t].status = "running"
    /\ tasks[t].stack = <<>>
    /\ tasks' = [tasks EXCEPT
                   ![t].status = "done",
                   ![t].result = IF Tree(tasks[t].module).kind \in {"Script", "Css"}
                                 THEN visitors[VisitorOf(t)].dependencies
                                 ELSE <<>>]
    /\ UNCHANGED <<once, THREAD_POOL, built, failed, proc, scopeCalls, callers, scopes, visitors>>
    /\ UNCHANGED analysisVars

NextPool ==
    \/ \E c \in Callers : CallSpawn(c)
    \/ \E c \in Callers : CallScope(c)
    \/ \E c \in Callers : Wake(c)
    \/ \E c \in Callers : BuildOk(c)
    \/ \E c \in Callers : BuildFail(c)
    \/ \E c \in Callers : Spawn(c)
    \/ \E c \in Callers : ScopeBegin(c)
    \/ \E c \in Callers : ScopeSpawn(c)
    \/ \E c \in Callers : ScopeOpReturn(c)
    \/ \E c \in Callers : SubStart(c)
    \/ \E c \in Callers : SubFinish(c)
    \/ \E c \in Callers : ScopeReturn(c)
    \/ \E t \in Tasks : TaskStart(t)
    \/ \E t \in Tasks : TaskStep(t)
    \/ \E t \in Tasks : TaskFinish(t)

SpecPool == InitPool /\ [][NextPool]_vars

(***************************************************************************)
(* Properties of one analysis                                              *)
(***************************************************************************)
RECURSIVE Flatten(_)
Flatten(seqs) == IF seqs = <<>> THEN <<>> ELSE Head(seqs) \o Flatten(Tail(seqs))

\* The record(source, kind) calls of a traversal, in traversal order: what
\* each callback binds when nothing has been seen yet, node before children.
RECURSIVE RecordCalls(_)
RecordCalls(n) ==
    LET o == Visit(new, n)
    IN  o.v.dependencies
        \o Flatten([i \in 1..Len(o.next) |-> RecordCalls(o.next[i])])

FirstAt(calls, i) == \A j \in 1..(i - 1) : calls[j].source # calls[i].source

\* the calls that are the first occurrence of their source, in order
RECURSIVE FirstOccurrences(_, _)
FirstOccurrences(calls, i) ==
    IF i > Len(calls) THEN <<>>
    ELSE (IF FirstAt(calls, i) THEN <<calls[i]>> ELSE <<>>)
         \o FirstOccurrences(calls, i + 1)

SourcesOf(deps) == [k \in 1..Len(deps) |-> deps[k].source]

\* C1: the k-th Dependency of the visitor and of the returned list has
\* order k, and the returned sources are the first occurrences of the
\* sources the traversal recorded, in traversal order.
C1_OrderContiguous ==
    /\ \A k \in 1..Len(visitor.dependencies) : visitor.dependencies[k].order = k
    /\ pc = "done" =>
        /\ \A k \in 1..Len(result) : result[k].order = k
        /\ SourcesOf(result) = SourcesOf(FirstOccurrences(RecordCalls(ast), 1))

C1_Witness ==
    /\ pc = "done"
    /\ Len(result) = 2
    /\ Len(RecordCalls(ast)) = 3
    /\ RecordCalls(ast)[2].source = RecordCalls(ast)[1].source
    /\ result[2].order = 2

\* C2: the returned list has no two entries with the same source, and each
\* entry carries the resolve_type of the first record call of its source.
C2_DedupFirstWins ==
    pc = "done" =>
        LET calls == RecordCalls(ast)
        IN  /\ \A i, j \in 1..Len(result) : result[i].source = result[j].source => i = j
            /\ \A k \in 1..Len(result) :
                 \E i \in 1..Len(calls) :
                    /\ FirstAt(calls, i)
                    /\ calls[i].source = result[k].source
                    /\ calls[i].resolve_type = result[k].resolve_type
            /\ \A i \in 1..Len(calls) :
                 \E k \in 1..Len(result) : result[k].source = calls[i].source

C2_Witness ==
    /\ pc = "done"
    /\ Len(result) = 1
    /\ result[1].resolve_type = "Import"
    /\ \E i \in 1..Len(RecordCalls(ast)) :
         /\ RecordCalls(ast)[i].source = result[1].source
         /\ RecordCalls(ast)[i].resolve_type = "Require"

IsBareRequire(n) == n.kind = "Call" /\ n.kids[1] = Ident("require")
HasLiteralFirstArg(n) == Len(n.kids) >= 2 /\ n.kids[2].kind = "Str"

\* the step from visitor v to visitor w appended a Dependency of this kind
Recorded(v, w, kind) ==
    /\ Len(w.dependencies) = Len(v.dependencies) + 1
    /\ w.dependencies[Len(w.dependencies)].resolve_type = kind

\* C8: a step records a Require dependency only on a call whose callee is
\* the bare identifier require and whose first argument is a string literal,
\* the recorded source; a require call whose first argument is missing or
\* is no string literal records nothing and does not fail.
C8_RequireOnlyLiteral ==
    [][/\ Recorded(visitor, visitor', "Require") =>
            /\ stack # <<>>
            /\ IsBareRequire(Head(stack))
            /\ HasLiteralFirstArg(Head(stack))
            /\ visitor'.dependencies[Len(visitor'.dependencies)].source
                  = Head(stack).kids[2].src
       /\ (/\ pc = "visiting"
           /\ stack # <<>>
           /\ IsBareRequire(Head(stack))
           /\ ~HasLiteralFirstArg(Head(stack))) =>
            /\ visitor' = visitor
            /\ pc' = "visiting"]_vars

C8_Witness ==
    /\ pc = "done"
    /\ ast = Script(<<ExprStmt(Call(Ident("require"), <<Ident("x")>>)),
                      ExprStmt(Call(Ident("require"), <<Str("a")>>))>>)
    /\ result = <<Dependency("a", 1, "Require")>>

IsTypeOnly(n) == n.kind = "ImportDecl" /\ n.tag = "type_only"
WithoutTypeOnly(tree) == Script(SelectSeq(tree.kids, LAMBDA n : ~IsTypeOnly(n)))

\* C9: type-only imports are never recorded: the returned list is the one
\* the same module gives once its type-only imports are removed; it is empty
\* when there is nothing else, and a type-only import uses no order value.
C9_TypeOnlyIgnored ==
    (pc = "done" /\ ast.kind = "Script") =>
        /\ result = analyze_deps(WithoutTypeOnly(ast)).deps
        /\ (\A i \in 1..Len(ast.kids) : IsTypeOnly(ast.kids[i])) => result = <<>>
        /\ \A k \in 1..Len(result) :
             \E i \in 1..Len(ast.kids) :
                ~IsTypeOnly(ast.kids[i]) /\ Contains(SourcesOf(RecordCalls(ast.kids[i])),
                                                     result[k].source)

C9_Witness ==
    /\ pc = "done"
    /\ ast = Script(<<ImportDecl("a", TRUE), ImportDecl("b", FALSE)>>)
    /\ result = <<Dependency("b", 1, "Import")>>

IsMatchingCall(n) ==
    /\ n.kind = "Call"
    /\ n.kids[1] \in {Ident("require"), ImportKw}
    /\ HasLiteralFirstArg(n)

\* sources of the matching calls anywhere below n
RECURSIVE MatchingAnywhere(_)
MatchingAnywhere(n) ==
    (IF IsMatchingCall(n) THEN {n.kids[2].src} ELSE {})
    \cup UNION {MatchingAnywhere(n.kids[i]) : i \in 1..Len(n.kids)}

\* the same, leaving out what lies inside a matching call
RECURSIVE MatchingOutsideMatches(_)
MatchingOutsideMatches(n) ==
    IF IsMatchingCall(n) THEN {n.kids[2].src}
    ELSE UNION {MatchingOutsideMatches(n.kids[i]) : i \in 1..Len(n.kids)}

ResultSources == {result[k].source : k \in 1..Len(result)}

\* C10 as stated: every require / dynamic-import call with a literal-string
\* first argument anywhere inside the body of an exported function has its
\* source in the returned list.
C10_NestedAnyDepth ==
    (pc = "done" /\ ast.kind = "Script") =>
        \A i \in 1..Len(ast.kids) :
            ast.kids[i].kind = "ExportDecl" =>
                MatchingAnywhere(ast.kids[i]) \subseteq ResultSources

\* C10 amended: every such call that does not lie inside the arguments of a
\* call that itself matched has its source in the returned list.
C10_NestedOutsideMatches ==
    (pc = "done" /\ ast.kind = "Script") =>
        \A i \in 1..Len(ast.kids) :
            ast.kids[i].kind = "ExportDecl" =>
                MatchingOutsideMatches(ast.kids[i]) \subseteq ResultSources

C10_Witness ==
    /\ pc = "done"
    /\ ast = Script(<<ExportFn(<<ExprStmt(Call(Ident("foo"),
                          <<Call(Ident("require"), <<Str("a")>>)>>))>>)>>)
    /\ result = <<Dependency("a", 1, "Require")>>

RECURSIVE HasValuelessUrl(_)
HasValuelessUrl(n) ==
    \/ (n.kind = "Url" /\ n.tag = "None")
    \/ \E i \in 1..Len(n.kids) : HasValuelessUrl(n.kids[i])

\* C7 as stated: analysis never returns a dependency list for a stylesheet
\* that contains a url() node without a value.
C7_ValuelessUrlFails ==
    (ast.kind = "Css" /\ HasValuelessUrl(ast)) => pc # "done"

(***************************************************************************)
(* Properties of the pool                                                  *)
(***************************************************************************)
IsPrefix(p, q) == Len(p) <= Len(q) /\ \A i \in 1..Len(p) : p[i] = q[i]

\* C3: whatever the interleaving, an analysis run as a spawned task
\* returns the list the sequential analysis of its module returns, and
\* while it runs its collector holds a prefix of that list.
C3_ConcurrentEqualsSequential ==
    \A t \in Tasks :
        LET sequential == analyze_deps(Tree(tasks[t].module))
        IN  /\ tasks[t].status = "done" =>
                  /\ ~sequential.fault
                  /\ tasks[t].result = sequential.deps
            /\ tasks[t].status = "running" =>
                  /\ IsPrefix(visitors[t].dependencies, sequential.deps)
                  /\ visitors[t].order = Len(visitors[t].dependencies) + 1

C3_Witness ==
    /\ tasks[1].module # tasks[2].module
    /\ tasks[1].status = "running"
    /\ tasks[1].stack = <<>>
    /\ Len(visitors[1].dependencies) = 2
    /\ tasks[2].status = "running"
    /\ tasks[2].stack # <<>>
    /\ visitors[2].dependencies = <<Dependency("b", 1, "ExportAll")>>

\* C4: at most one pool is ever built, every caller, job and scope that
\* holds a pool holds the stored one, and a stored pool is never replaced.
C4_OnePool ==
    /\ [](/\ built <= 1
          /\ \A c \in Callers :
               callers[c].pc \in {"got", "in_scope"} =>
                   (THREAD_POOL # 0 /\ callers[c].pool = THREAD_POOL)
          /\ \A c \in Callers :
               scopes[c].state # "none" => scopes[c].pool = THREAD_POOL
          /\ \A t \in Tasks :
               tasks[t].status \in {"queued", "running", "done", "panicked"} =>
                   (THREAD_POOL # 0 /\ tasks[t].pool = THREAD_POOL))
    /\ [][THREAD_POOL # 0 => THREAD_POOL' = THREAD_POOL]_vars

C4_Witness ==
    /\ THREAD_POOL = 1
    /\ \E c, d \in Callers :
         /\ callers[c].pc = "got"
         /\ callers[c].op = "spawn"
         /\ callers[d].pc = "waiting"
         /\ callers[d].op = "scope"

\* C5 as stated: when a spawned task has faulted, the analyses of other
\* modules that are queued or running are still served by the pool.
C5_FaultIsolated ==
    \A t, u \in Tasks :
        (/\ t # u
         /\ tasks[t].status = "panicked"
         /\ tasks[u].status \in {"queued", "running"}) => proc = "running"

\* C6: the caller of scope stays blocked while op runs or a sub-task of
\* the scope is queued or running, and leaves scope only when op has
\* returned and no sub-task is left.
C6_ScopeJoins ==
    /\ [](\A c \in Callers :
            (\/ scopes[c].state = "op"
             \/ scopes[c].queued > 0
             \/ scopes[c].running > 0) => callers[c].pc = "in_scope")
    /\ [][\A c \in Callers :
            (callers[c].pc = "in_scope" /\ callers'[c].pc # "in_scope") =>
                /\ scopes[c].state = "joining"
                /\ scopes[c].queued = 0
                /\ scopes[c].running = 0]_vars

C6_Witness ==
    \E c \in Callers :
        /\ callers[c].pc = "in_scope"
        /\ scopes[c].state = "joining"
        /\ scopes[c].spawned >= 1
        /\ scopes[c].queued = 0
        /\ scopes[c].running = 0

\* C11 as stated: once a build of the pool has failed, no job is run (there
\* is no fallback on the calling thread) and no caller of spawn or scope
\* builds the pool again.
C11_NoRetryAfterFailure ==
    failed > 0 =>
        /\ built = 0
        /\ \A c \in Callers : callers[c].pc # "building"
        /\ \A t \in Tasks : tasks[t].status \in {"new", "queued"}

\* the step from visitor v to visitor w appended exactly this Dependency
Appended(v, w, source, kind) ==
    /\ w.dependencies = Append(v.dependencies,
                               Dependency(source, Len(v.dependencies) + 1, kind))
    /\ w.dep_strs = Append(v.dep_strs, source)

Unseen(source) == ~Contains(visitor.dep_strs, source)

\* C12: a callback on a recognized script construct whose source has not
\* been seen appends it with the resolve_type of the table: Import for an
\* import that is not type-only, ExportNamed for a named re-export with a
\* source (nothing for one without), ExportAll for export *, DynamicImport
\* for a call of the dynamic-import operator with a literal first argument.
C12_ResolveTypeTable ==
    [][(pc = "visiting" /\ stack # <<>> /\ ast.kind = "Script") =>
          LET n == Head(stack)
          IN  /\ (n.kind = "ImportDecl" /\ n.tag # "type_only" /\ Unseen(n.src)) =>
                    Appended(visitor, visitor', n.src, "Import")
              /\ (n.kind = "ExportNamed" /\ n.tag = "src" /\ Unseen(n.src)) =>
                    Appended(visitor, visitor', n.src, "ExportNamed")
              /\ (n.kind = "ExportNamed" /\ n.tag = "nosrc") => visitor' = visitor
              /\ (n.kind = "ExportAll" /\ Unseen(n.src)) =>
                    Appended(visitor, visitor', n.src, "ExportAll")
              /\ (/\ n.kind = "Call"
                  /\ n.kids[1] = ImportKw
                  /\ HasLiteralFirstArg(n)
                  /\ Unseen(n.kids[2].src)) =>
                    Appended(visitor, visitor', n.kids[2].src, "DynamicImport")]_vars

C12_Witness ==
    /\ pc = "done"
    /\ ast = Script(<<ExportAll("b"), ExprStmt(Call(ImportKw, <<Str("a")>>))>>)
    /\ result = <<Dependency("b", 1, "ExportAll"), Dependency("a", 2, "DynamicImport")>>

\* the three spellings of @import a.css
ImportForms ==
    {ImportHrefUrl(Url("Raw", "a")), ImportHrefStr("a"), ImportHrefUrl(Url("Str", "a"))}

\* C13: in a stylesheet, an import target that is a url() with a quoted or
\* raw value or a bare string, and a url() with a value anywhere else, is
\* appended with resolve_type Css and its text as source when that source
\* has not been seen; each spelling of @import a.css alone yields exactly
\* one Css dependency with source a and order 1.
C13_CssRecords ==
    /\ []((pc = "done" /\ ast.kind = "Css" /\ Len(ast.kids) = 1
             /\ ast.kids[1].kind = "ImportRule"
             /\ ast.kids[1].kids[1] \in ImportForms) =>
                result = <<Dependency("a", 1, "Css")>>)
    /\ [][(pc = "visiting" /\ stack # <<>> /\ ast.kind = "Css") =>
            LET n == Head(stack)
            IN  /\ (/\ n.kind = "ImportHref"
                    /\ n.tag = "Url"
                    /\ n.kids[1].tag \in {"Str", "Raw"}
                    /\ Unseen(n.kids[1].src)) =>
                      Appended(visitor, visitor', n.kids[1].src, "Css")
                /\ (n.kind = "ImportHref" /\ n.tag = "Str" /\ Unseen(n.src)) =>
                      Appended(visitor, visitor', n.src, "Css")
                /\ (n.kind = "Url" /\ n.tag \in {"Str", "Raw"} /\ Unseen(n.src)) =>
                      (Appended(visitor, visitor', n.src, "Css") /\ pc' = "visiting")]_vars

C13_Witness ==
    /\ pc = "done"
    /\ ast = Css(<<ImportRule(ImportHrefUrl(Url("Raw", "a"))),
                   Declaration("background", <<Url("Raw", "b")>>)>>)
    /\ result = <<Dependency("a", 1, "Css"), Dependency("b", 2, "Css")>>

\* C14: a script tree is walked by the script callbacks and a stylesheet by
\* the stylesheet callbacks; any other variant creates no visitor, never
\* faults, and returns the empty list.
C14_Dispatch ==
    /\ (pc = "visiting" /\ stack # <<>>) =>
          /\ ast.kind \in {"Script", "Css"}
          /\ ast.kind = "Script" => ScriptHandled(Head(stack))
          /\ ast.kind = "Css" => CssHandled(Head(stack))
    /\ ast.kind \notin {"Script", "Css"} =>
          /\ pc \in {"start", "done"}
          /\ visitor = NoVisitor
          /\ result = <<>>

C14_Witness ==
    /\ pc = "done"
    /\ ast = Other
    /\ result = <<>>

\* C15: a recorded require / dynamic-import call is terminal, none of its
\* children is traversed; every other call, including a require or import()
\* whose first argument is not a string literal, records nothing itself and
\* has all its children traversed, so that a matching call in its callee or
\* among its arguments is found.
C15_MatchIsTerminal ==
    /\ []((pc = "done" /\ ast.kind = "Script") =>
            \A i \in 1..Len(ast.kids) :
                ast.kids[i].kind = "ExportDecl" =>
                    \A j \in 1..Len(ast.kids[i].kids) :
                        LET c == ast.kids[i].kids[j].kids[1]
                        IN  (c.kind = "Call" /\ ~IsMatchingCall(c)) =>
                                \A k \in 1..Len(c.kids) :
                                    IsMatchingCall(c.kids[k]) =>
                                        c.kids[k].kids[2].src \in ResultSources)
    /\ [][(pc = "visiting" /\ stack # <<>> /\ Head(stack).kind = "Call") =>
            LET n == Head(stack)
            IN  IF IsMatchingCall(n)
                THEN /\ stack' = Descend(Tail(stack))
                     /\ \/ Contains(visitor.dep_strs, n.kids[2].src) /\ visitor' = visitor
                        \/ /\ Unseen(n.kids[2].src)
                           /\ \E kind \in {"Require", "DynamicImport"} :
                                  Appended(visitor, visitor', n.kids[2].src, kind)
                ELSE /\ stack' = Descend(n.kids \o Tail(stack))
                     /\ visitor' = visitor]_vars

C15_Witness ==
    /\ pc = "done"
    /\ ast = Script(<<ExportFn(<<ExprStmt(Call(Ident("require"),
                                    <<Str("b"), Call(Ident("require"), <<Str("a")>>)>>))>>),
                      ExportFn(<<ExprStmt(Call(Ident("require"),
                                    <<Call(ImportKw, <<Str("a")>>)>>))>>)>>)
    /\ result = <<Dependency("b", 1, "Require"), Dependency("a", 2, "DynamicImport")>>

ResolveTypes ==
    {"Import", "ExportNamed", "ExportAll", "Require", "DynamicImport", "Css"}

\* C16: recording a source the visitor has already seen changes nothing,
\* whatever the kind: the dependency list, the seen sources and the order
\* counter are left as they were, both for every kind the visitor could be
\* handed and in every callback of the traversal that meets a seen source.
C16_RepeatIsNoOp ==
    /\ [](\A source \in Sources \cup {"c"} : \A kind \in ResolveTypes :
             Contains(visitor.dep_strs, source) =>
                 bind_dependency(visitor, source, kind) = visitor)
    /\ [][(pc = "visiting" /\ stack # <<>>) =>
            LET call == Visit(new, Head(stack)).v.dependencies
            IN  (call # <<>> /\ Contains(visitor.dep_strs, call[1].source)) =>
                    visitor' = visitor]_vars

C16_Witness ==
    /\ pc = "done"
    /\ ast = Script(<<ImportDecl("a", FALSE),
                      ExprStmt(Call(ImportKw, <<Str("a")>>))>>)
    /\ result = <<Dependency("a", 1, "Import")>>
    /\ visitor.order = 2

\* C17: at every point of a traversal the seen sources and the dependencies
\* have the same length n, the i-th seen source is the source of the i-th
\* dependency, and the order counter is n + 1; a step of the traversal
\* leaves the dependency list as it was or appends to it.
C17_VisitorInvariant ==
    /\ []((pc # "start" /\ ast.kind \in {"Script", "Css"}) =>
            /\ Len(visitor.dep_strs) = Len(visitor.dependencies)
            /\ \A i \in 1..Len(visitor.dependencies) :
                   visitor.dep_strs[i] = visitor.dependencies[i].source
            /\ visitor.order = Len(visitor.dependencies) + 1)
    /\ [][/\ IsPrefix(visitor.dependencies, visitor'.dependencies)
          /\ Len(visitor'.dependencies) <= Len(visitor.dependencies) + 1]_vars

C17_Witness ==
    /\ pc = "visiting"
    /\ stack # <<>>
    /\ visitor.dep_strs = <<"b", "a">>
    /\ Len(visitor.dependencies) = 2
    /\ visitor.order = 3

====
